---- MODULE Spec2Model ----
(***************************************************************************)
(* Memory access pattern benchmark: memory_benchmark_fixed.c and           *)
(* memory_benchmark_fixed.cpp.                                             *)
(*                                                                         *)
(* Both programs allocate a DataBuffer of ARRAY_SIZE records and an        *)
(* IndexSequence of ARRAY_SIZE/8 offsets, fill the buffer from a seeded    *)
(* generator, and then run five patterns through benchmark_pattern: the    *)
(* pattern's generator, 3 warmup passes, 10 timed passes, the median.      *)
(*                                                                         *)
(* Representation.  Arrays are functions over 0..n-1.  A timestamp is a    *)
(* fixed-point number with six decimals: get_time's seconds are counted in *)
(* microseconds, and a sample (end - start) * 1000 in milliseconds is      *)
(* counted in 1e-6 ms.  rand / std::mt19937 are library generators; they   *)
(* are modelled by one 16-bit linear congruential engine (deterministic    *)
(* in its state, which is all the programs rely on).                       *)
(***************************************************************************)
EXTENDS Integers, Sequences, FiniteSets, TLC

----------------------------------------------------------------------------
(* Bounds of the model *)

\* ARRAY_SIZE is scaled down to 16 * HalfLen records, so that the index
\* sequence has the even length 2 * HalfLen (the source: 4 * 1024 * 1024).
HalfLen == 2
\* A pass over the buffer takes 1..MaxCost clock ticks, fixed per pattern.
MaxCost == 2
\* Length of one clock tick in microseconds.
TickUs == 8
\* How many times the host's calendar clock is stepped backwards in a run.
MaxAdjust == 1
\* Timing samples handed to the median are drawn from 0..MaxSample (the bubble
\* sort is a fixed network of compare-exchanges, so that 0/1 inputs already
\* decide whether it sorts), besides the spec's hand-constructed array.
MaxSample == 1
\* Generator calls made by the generator harness.
MaxGenCalls == 4

----------------------------------------------------------------------------
(* Program constants *)

ARRAY_SIZE == 16 * HalfLen
NUM_ITERATIONS == 10
WARMUP_ITERATIONS == 3
\* srand(12345) / std::mt19937 gen(12345)
FILL_SEED == 12345
\* srand(42) / std::mt19937 rng{42}
SHUFFLE_SEED == 42

\* ARRAY_SIZE / 8: the length of the index sequence
Count == ARRAY_SIZE \div 8

PatternNames == <<"Sequential", "Backward", "Interleaved", "Bouncing", "Random">>

\* A pointer that malloc returned as NULL / a vector that was never built.
NULL == <<>>

\* The builds of the two sources: the language, and the clock get_time reads.
\* std::chrono::high_resolution_clock is an alias the library chooses:
\* system_clock (calendar time) or steady_clock.
Builds ==
    { [lang |-> "c",   timer |-> "QueryPerformanceCounter"],
      [lang |-> "c",   timer |-> "gettimeofday"],
      [lang |-> "cpp", timer |-> "QueryPerformanceCounter"],
      [lang |-> "cpp", timer |-> "hrc_system_clock"],
      [lang |-> "cpp", timer |-> "hrc_steady_clock"] }

\* Values standing for the indeterminate content of malloc'ed storage.
JunkData == {0, 7}
\* The indeterminate content of the local array times.
JunkTime == 0 - 1
\* Indeterminate content of the index storage: in range, unaligned, out of range.
JunkIndex == {0, 3, ARRAY_SIZE}

----------------------------------------------------------------------------
(* The library generator *)

\* srand(seed) / engine(seed)
Srand(seed) == seed % 65536

\* One step of the engine.
NextRand(s) == (s * 25173 + 13849) % 65536

\* The value rand() / gen() returns in the state s it has stepped to.
RandValue(s) == s \div 2

\* The engine state after n draws.
RECURSIVE Advance(_, _)
Advance(s, n) == IF n = 0 THEN s ELSE Advance(NextRand(s), n - 1)

----------------------------------------------------------------------------
(* DataBuffer *)

DataStruct(a, b, c, d, e, f, g, h) ==
    [a |-> a, b |-> b, c |-> c, d |-> d, e |-> e, f |-> f, g |-> g, h |-> h]

\* for (i = 0; i < ARRAY_SIZE; i++) { arr[i].a = rand(); ... arr[i].h = rand(); }
\* from the engine state r: the filled buffer and the state the fill leaves.
RECURSIVE FillLoop(_, _, _)
FillLoop(a, r, i) ==
    IF i < ARRAY_SIZE
    THEN LET v(k) == RandValue(Advance(r, k))
         IN  FillLoop([a EXCEPT ![i] = DataStruct(v(1), v(2), v(3), v(4),
                                                  v(5), v(6), v(7), v(8))],
                      Advance(r, 8), i + 1)
    ELSE [arr |-> a, rng |-> r]

\* std::vector<DataStruct> arr(ARRAY_SIZE): value-initialised records
ZeroArray == [i \in 0 .. ARRAY_SIZE - 1 |-> DataStruct(0, 0, 0, 0, 0, 0, 0, 0)]

JunkArray(v) == [i \in 0 .. ARRAY_SIZE - 1 |-> DataStruct(v, v, v, v, v, v, v, v)]

----------------------------------------------------------------------------
(* IndexPatternGenerator: each generator overwrites the index storage ind *)

RECURSIVE SequentialLoop(_, _)
SequentialLoop(ind, i) ==
    IF i < Count
    THEN SequentialLoop([ind EXCEPT ![i] = i * 8], i + 1)
    ELSE ind

generate_sequential_indices(ind) == SequentialLoop(ind, 0)

RECURSIVE BackwardLoop(_, _)
BackwardLoop(ind, i) ==
    IF i < Count
    THEN BackwardLoop([ind EXCEPT ![i] = (Count - 1 - i) * 8], i + 1)
    ELSE ind

generate_backward_indices(ind) == BackwardLoop(ind, 0)

RECURSIVE InterleavedLoop(_, _, _)
InterleavedLoop(ind, half, i) ==
    IF i < half
    THEN InterleavedLoop([ind EXCEPT ![2 * i] = i * 8,
                                     ![2 * i + 1] = (half + i) * 8],
                         half, i + 1)
    ELSE ind

\* A slip: the two halves written to the wrong positions.
RECURSIVE InterleavedSwappedLoop(_, _, _)
InterleavedSwappedLoop(ind, half, i) ==
    IF i < half
    THEN InterleavedSwappedLoop([ind EXCEPT ![2 * i] = (half + i) * 8,
                                            ![2 * i + 1] = i * 8],
                                half, i + 1)
    ELSE ind

generate_interleaved_swapped(ind) == InterleavedSwappedLoop(ind, Count \div 2, 0)

generate_interleaved_indices(ind) == InterleavedLoop(ind, Count \div 2, 0)

\* A slip: the high end taken as count instead of count - 1.
RECURSIVE BouncingOffByOneLoop(_, _, _)
BouncingOffByOneLoop(ind, count, i) ==
    IF i < count
    THEN BouncingOffByOneLoop([ind EXCEPT ![i] = IF i % 2 = 0
                                                 THEN (i \div 2) * 8
                                                 ELSE (count - i \div 2) * 8],
                              count, i + 1)
    ELSE ind

\* A slip: the parity test inverted, so that the walk starts at the high end.
RECURSIVE BouncingInvertedLoop(_, _, _)
BouncingInvertedLoop(ind, count, i) ==
    IF i < count
    THEN BouncingInvertedLoop([ind EXCEPT ![i] = IF i % 2 = 1
                                                 THEN (i \div 2) * 8
                                                 ELSE (count - 1 - i \div 2) * 8],
                              count, i + 1)
    ELSE ind

RECURSIVE BouncingLoop(_, _, _)
BouncingLoop(ind, count, i) ==
    IF i < count
    THEN BouncingLoop([ind EXCEPT ![i] = IF i % 2 = 0
                                         THEN (i \div 2) * 8
                                         ELSE (count - 1 - i \div 2) * 8],
                      count, i + 1)
    ELSE ind

generate_bouncing_off_by_one(ind) == BouncingOffByOneLoop(ind, Count, 0)

generate_bouncing_indices(ind) == BouncingLoop(ind, Count, 0)

\* Fisher-Yates: for (i = count - 1; i > 0; i--) swap(ind[i], ind[rand() % (i + 1)])
RECURSIVE ShuffleLoop(_, _, _)
ShuffleLoop(ind, r, i) ==
    IF i > 0
    THEN LET r2 == NextRand(r)
             j  == RandValue(r2) % (i + 1)
         IN  ShuffleLoop([ind EXCEPT ![i] = ind[j], ![j] = ind[i]], r2, i - 1)
    ELSE [indices |-> ind, rng |-> r]

\* The shuffled sequence, and the engine state the shuffle leaves.
generate_random_indices(ind, r) ==
    ShuffleLoop(generate_sequential_indices(ind), r, Count - 1)

\* generate_func(): pattern p applied to the storage ind with the engine in state r.
Generate(p, ind, r) ==
    CASE p = 1 -> [indices |-> generate_sequential_indices(ind), rng |-> r]
      [] p = 2 -> [indices |-> generate_backward_indices(ind), rng |-> r]
      [] p = 3 -> [indices |-> generate_interleaved_indices(ind), rng |-> r]
      [] p = 4 -> [indices |-> generate_bouncing_indices(ind), rng |-> r]
      [] p = 5 -> generate_random_indices(ind, r)


----------------------------------------------------------------------------
(* PatternBenchmark *)

\* for (j = 0; j < count; j++) sum += arr[indices[j]].a;
\* offs lists the offsets read, in order; oob tells that an offset was outside
\* the buffer (the read is then undefined and adds nothing here).
RECURSIVE ReadLoop(_, _, _, _, _)
ReadLoop(a, ind, count, j, acc) ==
    IF j < count
    THEN LET inside == ind[j] \in DOMAIN a
         IN  ReadLoop(a, ind, count, j + 1,
                      [sum  |-> IF inside THEN acc.sum + a[ind[j]].a ELSE acc.sum,
                       offs |-> Append(acc.offs, ind[j]),
                       oob  |-> acc.oob \/ ~inside])
    ELSE acc

\* A slip: the loop stops one entry short.
ReadPassShort(a, ind) ==
    ReadLoop(a, ind, Count - 1, 0, [sum |-> 0, offs |-> <<>>, oob |-> FALSE])

\* One full pass of the read-sum loop, sum starting at 0.
ReadPass(a, ind) ==
    ReadLoop(a, ind, Count, 0, [sum |-> 0, offs |-> <<>>, oob |-> FALSE])

\* The inner loop of the bubble sort: for (j = 0; j < n - i - 1; j++)
RECURSIVE BubbleInner(_, _, _)
BubbleInner(t, i, j) ==
    IF j < NUM_ITERATIONS - i - 1
    THEN IF t[j] > t[j + 1]
         THEN BubbleInner([t EXCEPT ![j] = t[j + 1], ![j + 1] = t[j]], i, j + 1)
         ELSE BubbleInner(t, i, j + 1)
    ELSE t

\* The outer loop: for (i = 0; i < n - 1; i++)
RECURSIVE BubbleOuter(_, _)
BubbleOuter(t, i) ==
    IF i < NUM_ITERATIONS - 1
    THEN BubbleOuter(BubbleInner(t, i, 0), i + 1)
    ELSE t

BubbleSort(t) == BubbleOuter(t, 0)

\* std::sort(times.begin(), times.end()): the library's ascending sort,
\* here by insertion of t[k] into the sorted prefix 0..k-1.
RECURSIVE InsertDown(_, _)
InsertDown(t, k) ==
    IF k > 0 /\ t[k - 1] > t[k]
    THEN InsertDown([t EXCEPT ![k - 1] = t[k], ![k] = t[k - 1]], k - 1)
    ELSE t

RECURSIVE StdSortLoop(_, _)
StdSortLoop(t, k) ==
    IF k < NUM_ITERATIONS THEN StdSortLoop(InsertDown(t, k), k + 1) ELSE t

StdSort(t) == StdSortLoop(t, 1)

SortTimes(lang, t) == IF lang = "c" THEN BubbleSort(t) ELSE StdSort(t)

\* A slip: the lower-middle element.
MedianLower(sorted) == sorted[NUM_ITERATIONS \div 2 - 1]

\* double median_time = times[NUM_ITERATIONS / 2];
MedianOf(sorted) == sorted[NUM_ITERATIONS \div 2]

\* times[i] = (end - start) * 1000.0
Sample(startT, endT) == (endT - startT) * 1000

\* "%.2f" / std::fixed << std::setprecision(2): a value counted in 1e-6 ms,
\* rounded to hundredths of a millisecond.
Fmt2(v) == (v + 5000) \div 10000

----------------------------------------------------------------------------
(* Timer *)

\* get_time() of a build, given the host's monotonic counter and the sum of
\* the adjustments made to its calendar clock.
get_time(b, monoT, adj) ==
    IF b.timer \in {"gettimeofday", "hrc_system_clock"}
    THEN monoT + adj
    ELSE monoT

----------------------------------------------------------------------------
(* ReportEmitter: one record per line written *)

Line(kind, name, value) == [kind |-> kind, name |-> name, value |-> value]

\* The three header statements of main / runBenchmarks.  A header line records
\* the statement that wrote it, not the numbers it renders (the C source hands
\* the int ARRAY_SIZE to %zu).
HeaderLines ==
    << Line("title", "Memory Access Pattern Benchmark", 0),
       Line("array_size", "Array size", 0),
       Line("iterations", "Accessing every 8th element", 0) >>

\* printf("%12s: %8.2f ms\n", pattern_name, median_time)
ResultLine(name, median) == Line("result", name, Fmt2(median))

\* A slip: the Backward row printing the Sequential median.
CsvLinesMixed(res) ==
    << Line("marker", "CSV_OUTPUT:", 0),
       Line("csv_header", "Pattern,Time_ms", 0),
       Line("csv", "Sequential", Fmt2(res[1])),
       Line("csv", "Backward", Fmt2(res[1])),
       Line("csv", "Interleaved", Fmt2(res[3])),
       Line("csv", "Bouncing", Fmt2(res[4])),
       Line("csv", "Random", Fmt2(res[5])) >>

\* printf("\nCSV_OUTPUT:\n"); printf("Pattern,Time_ms\n"); and the five rows,
\* from the locals sequential, backward, interleaved, bouncing, random.
CsvLines(res) ==
    << Line("marker", "CSV_OUTPUT:", 0),
       Line("csv_header", "Pattern,Time_ms", 0),
       Line("csv", "Sequential", Fmt2(res[1])),
       Line("csv", "Backward", Fmt2(res[2])),
       Line("csv", "Interleaved", Fmt2(res[3])),
       Line("csv", "Bouncing", Fmt2(res[4])),
       Line("csv", "Random", Fmt2(res[5])) >>

----------------------------------------------------------------------------
(* State *)

VARIABLES
    build,        \* which source, compiled against which clock
    pc,           \* the position of the single thread of control
    arr,          \* DataBuffer (NULL before allocation)
    indices,      \* IndexSequence (NULL before allocation)
    rng,          \* state of rand() (C) / of the member rng (C++)
    pat,          \* pattern being benchmarked, 1..5 (0: none yet)
    w,            \* warmup loop counter
    it,           \* timed loop counter
    start,        \* double start
    times,        \* double times[NUM_ITERATIONS]
    sum,          \* the accumulator of the last pass
    results,      \* the medians returned so far, in call order
    out,          \* lines written to standard output
    err,          \* lines written to standard error
    exit_status,  \* -1 while the process runs
    mono,         \* the host's monotonic counter, microseconds
    wall_adj,     \* sum of the steps applied to the host's calendar clock
    cost,         \* ticks one pass of the current pattern takes
    adjusts,      \* calendar clock steps made so far
    calls,        \* generator calls made by the harness
    samples,      \* history: the samples as they were before sorting
    log,          \* history: the events of the current benchmark_pattern call
    reads,        \* history: reads of DataBuffer by the current call
    arr_written,  \* history: an element of DataBuffer was written
    ind_written   \* history: an element of IndexSequence was written

vars == << build, pc, arr, indices, rng, pat, w, it, start, times, sum, results,
           out, err, exit_status, mono, wall_adj, cost, adjusts, calls,
           samples, log, reads, arr_written, ind_written >>

\* What the environment owns.
env == << mono, wall_adj, cost, adjusts >>
\* The locals of benchmark_pattern.
locals == << w, it, start, times, sum >>
\* The history variables.
hist == << samples, log, reads, arr_written, ind_written >>

Event(ev, offs) == [ev |-> ev, offs |-> offs]

Init ==
    /\ build \in Builds
    /\ pc = "start"
    /\ arr = NULL
    /\ indices = NULL
    /\ rng = Srand(1)            \* the C library's state before any srand
    /\ pat = 0
    /\ w = 0
    /\ it = 0
    /\ start = 0
    /\ times = NULL
    /\ sum = 0
    /\ results = <<>>
    /\ out = <<>>
    /\ err = <<>>
    /\ exit_status = -1
    /\ mono = 0
    /\ wall_adj = 0
    /\ cost = 1
    /\ adjusts = 0
    /\ calls = 0
    /\ samples = NULL
    /\ log = <<>>
    /\ reads = 0
    /\ arr_written = FALSE
    /\ ind_written = FALSE

----------------------------------------------------------------------------
(* main, memory_benchmark_fixed.c *)

\* arr = malloc(...); indices = malloc(...): either may return NULL, and the
\* storage obtained holds indeterminate values.
Malloc ==
    /\ pc = "start"
    /\ build.lang = "c"
    /\ \E aok \in BOOLEAN, iok \in BOOLEAN, v \in JunkData,
          junk \in [0 .. Count - 1 -> JunkIndex] :
          /\ arr' = IF aok THEN JunkArray(v) ELSE NULL
          /\ indices' = IF iok THEN junk ELSE NULL
    /\ pc' = "check"
    /\ UNCHANGED << build, rng, pat, locals, results, out, err, exit_status,
                    env, calls, hist >>

\* A slip: && for ||, so that one failed allocation goes unnoticed.
CheckAllocBoth ==
    /\ pc = "check"
    /\ IF arr = NULL /\ indices = NULL
       THEN /\ err' = Append(err, "Memory allocation failed")
            /\ exit_status' = 1
            /\ pc' = "exit"
       ELSE /\ pc' = "fill"
            /\ UNCHANGED << err, exit_status >>
    /\ UNCHANGED << build, arr, indices, rng, pat, locals, results, out,
                    env, calls, hist >>

\* if (!arr || !indices) { fprintf(stderr, ...); return 1; }
CheckAlloc ==
    /\ pc = "check"
    /\ IF arr = NULL \/ indices = NULL
       THEN /\ err' = Append(err, "Memory allocation failed")
            /\ exit_status' = 1
            /\ pc' = "exit"
       ELSE /\ pc' = "fill"
            /\ UNCHANGED << err, exit_status >>
    /\ UNCHANGED << build, arr, indices, rng, pat, locals, results, out,
                    env, calls, hist >>

\* srand(12345); the fill loop
FillC ==
    /\ pc = "fill"
    /\ build.lang = "c"
    /\ LET f == FillLoop(arr, Srand(FILL_SEED), 0)
       IN  /\ arr' = f.arr
           /\ rng' = f.rng
    /\ arr_written' = TRUE
    /\ pc' = "header"
    /\ UNCHANGED << build, indices, pat, locals, results, out, err, exit_status,
                    env, calls, samples, log, reads, ind_written >>

\* The three header printf / std::cout statements.
PrintHeader ==
    /\ pc = "header"
    /\ out' = out \o HeaderLines
    /\ pc' = IF build.lang = "c" THEN "seed" ELSE "gen"
    /\ UNCHANGED << build, arr, indices, rng, pat, locals, results, err,
                    exit_status, env, calls, hist >>

\* A slip: the reseeding left out, the shuffle drawing on after the fill.
SeedShuffleKeep(r) == r

\* srand(42)
SeedShuffle(r) == Srand(SHUFFLE_SEED)

SeedRandom ==
    /\ pc = "seed"
    /\ rng' = SeedShuffle(rng)
    /\ pc' = "gen"
    /\ UNCHANGED << build, arr, indices, pat, locals, results, out, err,
                    exit_status, env, calls, hist >>

----------------------------------------------------------------------------
(* MemoryBenchmark::MemoryBenchmark, memory_benchmark_fixed.cpp *)

\* An allocation that fails throws std::bad_alloc, which nothing in the source
\* catches: std::terminate ends the process by abort (status 134 = 128 +
\* SIGABRT).  The line on standard error is the C++ runtime's diagnostic for
\* an uncaught exception (libstdc++, libc++ and the MSVC runtime each write
\* one); the source itself writes none.
Terminate ==
    /\ err' = Append(err, "terminate: std::bad_alloc")
    /\ exit_status' = 134
    /\ pc' = "exit"

\* arr(ARRAY_SIZE): allocate, then value-initialise every record
ConstructArr ==
    /\ pc = "start"
    /\ build.lang = "cpp"
    /\ \E ok \in BOOLEAN :
          IF ok
          THEN /\ arr' = ZeroArray
               /\ arr_written' = TRUE
               /\ pc' = "construct_indices"
               /\ UNCHANGED << err, exit_status >>
          ELSE /\ Terminate
               /\ UNCHANGED << arr, arr_written >>
    /\ UNCHANGED << build, indices, rng, pat, locals, results, out, env, calls,
                    samples, log, reads, ind_written >>

\* indices(ARRAY_SIZE / 8), then the member initialiser rng{42}
ConstructIndices ==
    /\ pc = "construct_indices"
    /\ \E ok \in BOOLEAN :
          IF ok
          THEN /\ indices' = [i \in 0 .. Count - 1 |-> 0]
               /\ ind_written' = TRUE
               /\ rng' = Srand(SHUFFLE_SEED)
               /\ pc' = "fill"
               /\ UNCHANGED << err, exit_status >>
          ELSE /\ Terminate
               /\ UNCHANGED << indices, ind_written, rng >>
    /\ UNCHANGED << build, arr, pat, locals, results, out, env, calls,
                    samples, log, reads, arr_written >>

\* The constructor's body: std::mt19937 gen(12345), a local engine
FillCpp ==
    /\ pc = "fill"
    /\ build.lang = "cpp"
    /\ arr' = FillLoop(arr, Srand(FILL_SEED), 0).arr
    /\ arr_written' = TRUE
    /\ pc' = "header"
    /\ UNCHANGED << build, indices, rng, pat, locals, results, out, err,
                    exit_status, env, calls, samples, log, reads, ind_written >>

----------------------------------------------------------------------------
(* benchmark_pattern, called for the five patterns in turn *)

\* The events of one pass, appended to the history.
PassDone(r) ==
    /\ sum' = r.sum
    /\ reads' = reads + Len(r.offs)
    /\ log' = Append(log, Event("pass", r.offs))
    /\ mono' = mono + cost * TickUs

\* generate_func(); and the declaration of times: zero-filled by std::vector
\* in C++, indeterminate in C, where one value stands for the content since
\* every entry is written before the sort reads it.  The environment fixes
\* what a pass over this pattern costs.
BenchGenerate ==
    /\ pc = "gen"
    /\ pat' = pat + 1
    /\ LET g == Generate(pat + 1, indices, rng)
       IN  /\ indices' = g.indices
           /\ rng' = g.rng
    /\ ind_written' = TRUE
    /\ times' = [i \in 0 .. NUM_ITERATIONS - 1 |->
                    IF build.lang = "c" THEN JunkTime ELSE 0]
    /\ \E c \in 1 .. MaxCost : cost' = c
    /\ w' = 0
    /\ it' = 0
    /\ log' = << Event("generate", <<>>) >>
    /\ reads' = 0
    /\ samples' = NULL
    /\ pc' = "warmup"
    /\ UNCHANGED << build, arr, start, sum, results, out, err, exit_status,
                    mono, wall_adj, adjusts, calls, arr_written >>

\* A slip: <= for <, one warmup pass too many.
WarmupPassExtra ==
    /\ pc = "warmup"
    /\ w <= WARMUP_ITERATIONS
    /\ PassDone(ReadPass(arr, indices))
    /\ w' = w + 1
    /\ pc' = IF w + 1 <= WARMUP_ITERATIONS THEN "warmup" ELSE "t_start"
    /\ UNCHANGED << build, arr, indices, rng, pat, it, start, times, results,
                    out, err, exit_status, wall_adj, cost, adjusts, calls,
                    samples, arr_written, ind_written >>

\* for (w = 0; w < WARMUP_ITERATIONS; w++) { one pass }
WarmupPass ==
    /\ pc = "warmup"
    /\ w < WARMUP_ITERATIONS
    /\ PassDone(ReadPass(arr, indices))
    /\ w' = w + 1
    /\ pc' = IF w + 1 < WARMUP_ITERATIONS THEN "warmup" ELSE "t_start"
    /\ UNCHANGED << build, arr, indices, rng, pat, it, start, times, results,
                    out, err, exit_status, wall_adj, cost, adjusts, calls,
                    samples, arr_written, ind_written >>

\* double start = get_time();
TimedStart ==
    /\ pc = "t_start"
    /\ it < NUM_ITERATIONS
    /\ start' = get_time(build, mono, wall_adj)
    /\ log' = Append(log, Event("timer", <<>>))
    /\ pc' = "t_pass"
    /\ UNCHANGED << build, arr, indices, rng, pat, w, it, times, sum, results,
                    out, err, exit_status, env, calls, samples, reads,
                    arr_written, ind_written >>

\* The timed pass.
TimedPass ==
    /\ pc = "t_pass"
    /\ PassDone(ReadPass(arr, indices))
    /\ pc' = "t_end"
    /\ UNCHANGED << build, arr, indices, rng, pat, w, it, start, times, results,
                    out, err, exit_status, wall_adj, cost, adjusts, calls,
                    samples, arr_written, ind_written >>

\* double end = get_time(); times[i] = (end - start) * 1000.0;
TimedEnd ==
    /\ pc = "t_end"
    /\ times' = [times EXCEPT ![it] = Sample(start, get_time(build, mono, wall_adj))]
    /\ log' = log \o << Event("timer", <<>>), Event("sample", <<>>) >>
    /\ it' = it + 1
    /\ pc' = IF it + 1 < NUM_ITERATIONS THEN "t_start" ELSE "reduce"
    /\ UNCHANGED << build, arr, indices, rng, pat, w, start, sum, results,
                    out, err, exit_status, env, calls, samples, reads,
                    arr_written, ind_written >>

\* Sort, take the median, print the result line, return the median.
Reduce ==
    /\ pc = "reduce"
    /\ LET sorted == SortTimes(build.lang, times)
       IN  /\ times' = sorted
           /\ results' = Append(results, MedianOf(sorted))
           /\ out' = Append(out, ResultLine(PatternNames[pat], MedianOf(sorted)))
    /\ samples' = times
    /\ log' = Append(log, Event("median", <<>>))
    /\ pc' = IF pat < Len(PatternNames) THEN "gen" ELSE "csv"
    /\ UNCHANGED << build, arr, indices, rng, pat, w, it, start, sum, err,
                    exit_status, env, calls, reads, arr_written, ind_written >>

\* The CSV block.
PrintCsv ==
    /\ pc = "csv"
    /\ out' = out \o CsvLines(results)
    /\ pc' = "return"
    /\ UNCHANGED << build, arr, indices, rng, pat, locals, results, err,
                    exit_status, env, calls, hist >>

\* free(arr); free(indices); return 0;  (C++: the destructors, return 0)
Return ==
    /\ pc = "return"
    /\ arr' = NULL
    /\ indices' = NULL
    /\ exit_status' = 0
    /\ pc' = "exit"
    /\ UNCHANGED << build, rng, pat, locals, results, out, err, env, calls, hist >>

----------------------------------------------------------------------------
(* The environment *)

\* How far one step sets the calendar clock back: more than any pass takes.
StepBackUs == (MaxCost + 1) * TickUs

\* The host's calendar clock is stepped backwards (an administrator, NTP)
\* while a timed pass runs, the one place where a build can observe it.
AdjustWallClock ==
    /\ pc = "t_pass"
    /\ adjusts < MaxAdjust
    /\ wall_adj' = wall_adj - StepBackUs
    /\ adjusts' = adjusts + 1
    /\ UNCHANGED << build, pc, arr, indices, rng, pat, locals, results, out, err,
                    exit_status, mono, cost, calls, hist >>

----------------------------------------------------------------------------
(* The program *)

Next ==
    \/ Malloc
    \/ CheckAlloc
    \/ FillC
    \/ ConstructArr
    \/ ConstructIndices
    \/ FillCpp
    \/ PrintHeader
    \/ SeedRandom
    \/ BenchGenerate
    \/ WarmupPass
    \/ TimedStart
    \/ TimedPass
    \/ TimedEnd
    \/ Reduce
    \/ PrintCsv
    \/ Return
    \/ AdjustWallClock

Spec == Init /\ [][Next]_vars

----------------------------------------------------------------------------
(* The median on arbitrary samples: benchmark_pattern entered at its        *)
(* reduction, after the ten samples of the first pattern were stored.       *)

\* The spec's hand-constructed array [5,1,4,2,8,9,3,7,6,0].
HandSamples == [i \in 0 .. NUM_ITERATIONS - 1 |-> << 5, 1, 4, 2, 8, 9, 3, 7, 6, 0 >>[i + 1]]

FilledArray == FillLoop(ZeroArray, Srand(FILL_SEED), 0).arr

InitMedian ==
    /\ build \in {b \in Builds : b.timer = "QueryPerformanceCounter"}
    /\ pc = "reduce"
    /\ arr = FilledArray
    /\ indices = generate_sequential_indices([i \in 0 .. Count - 1 |-> 0])
    /\ rng = Srand(SHUFFLE_SEED)
    /\ pat = 1
    /\ w = WARMUP_ITERATIONS
    /\ it = NUM_ITERATIONS
    /\ start = 0
    /\ times \in [0 .. NUM_ITERATIONS - 1 -> 0 .. MaxSample] \cup {HandSamples}
    /\ sum = 0
    /\ results = <<>>
    /\ out = HeaderLines
    /\ err = <<>>
    /\ exit_status = -1
    /\ mono = 0
    /\ wall_adj = 0
    /\ cost = 1
    /\ adjusts = 0
    /\ calls = 0
    /\ samples = NULL
    /\ log = <<>>
    /\ reads = 0
    /\ arr_written = TRUE
    /\ ind_written = TRUE

NextMedian == Reduce

SpecMedian == InitMedian /\ [][NextMedian]_vars

----------------------------------------------------------------------------
(* The generators called in any order on any content of the index storage, *)
(* each followed by at most one pass of the read loop.                      *)

InitGen ==
    /\ build \in {b \in Builds : b.timer = "QueryPerformanceCounter"}
    /\ pc = "harness"
    /\ arr = FilledArray
    /\ indices \in [0 .. Count - 1 -> JunkIndex]
    /\ rng = Srand(SHUFFLE_SEED)
    /\ pat = 0
    /\ w = 0
    /\ it = 0
    /\ start = 0
    /\ times = NULL
    /\ sum = 0
    /\ results = <<>>
    /\ out = <<>>
    /\ err = <<>>
    /\ exit_status = -1
    /\ mono = 0
    /\ wall_adj = 0
    /\ cost = 1
    /\ adjusts = 0
    /\ calls = 0
    /\ samples = NULL
    /\ log = <<>>
    /\ reads = 0
    /\ arr_written = TRUE
    /\ ind_written = FALSE

\* generate_func() for any of the five patterns
HarnessGenerate ==
    /\ pc = "harness"
    /\ calls < MaxGenCalls
    /\ \E p \in 1 .. Len(PatternNames) :
          /\ pat' = p
          /\ LET g == Generate(p, indices, rng)
             IN  /\ indices' = g.indices
                 /\ rng' = g.rng
    /\ calls' = calls + 1
    /\ ind_written' = TRUE
    /\ log' = << Event("generate", <<>>) >>
    /\ reads' = 0
    /\ UNCHANGED << build, pc, arr, locals, results, out, err, exit_status,
                    env, samples, arr_written >>

\* One pass of the read loop over what the last generator wrote.
HarnessPass ==
    /\ pc = "harness"
    /\ pat >= 1
    /\ Len(log) = 1
    /\ PassDone(ReadPass(arr, indices))
    /\ UNCHANGED << build, pc, arr, indices, rng, pat, w, it, start, times,
                    results, out, err, exit_status, wall_adj, cost, adjusts,
                    calls, samples, arr_written, ind_written >>

NextGen == HarnessGenerate \/ HarnessPass

SpecGen == InitGen /\ [][NextGen]_vars

----------------------------------------------------------------------------
(* Properties *)

\* The index storage as the sequence of offsets a pass reads.
IndexSeq(ind) == [k \in 1 .. Count |-> ind[k - 1]]

IsPrefix(s, t) == Len(s) <= Len(t) /\ \A k \in 1 .. Len(s) : s[k] = t[k]

\* The offsets every pattern visits: {0, 8, 16, ..., N-8}.
StridedOffsets == {8 * k : k \in 0 .. (ARRAY_SIZE \div 8) - 1}

\* The positions of benchmark_pattern between its generator and its return.
InPasses == {"warmup", "t_start", "t_pass", "t_end", "reduce"}

\* What a generator leaves when it starts from the sequential content.
SequentialIndices == generate_sequential_indices([i \in 0 .. Count - 1 |-> 0])

(* C1.  After any of the five generators has run on the index storage,     *)
(* whatever it held before (indeterminate content or the output of earlier *)
(* generators), the storage is a permutation of {0, 8, ..., N-8}: N/8      *)
(* entries, all distinct, all multiples of 8, all in [0, N); and every     *)
(* offset a pass then reads lies inside the DataBuffer.                    *)
C1_Permutation ==
    pat >= 1 =>
        /\ DOMAIN indices = 0 .. (ARRAY_SIZE \div 8) - 1
        /\ \A i \in DOMAIN indices :
              indices[i] % 8 = 0 /\ 0 <= indices[i] /\ indices[i] < ARRAY_SIZE
        /\ \A i, j \in DOMAIN indices : i # j => indices[i] # indices[j]
        /\ {indices[i] : i \in DOMAIN indices} = StridedOffsets
        /\ \A k \in 1 .. Len(log) :
              \A n \in 1 .. Len(log[k].offs) : log[k].offs[n] \in DOMAIN arr

\* The Random generator has run over the output of an earlier generator, has
\* really shuffled, and a pass has read the result.
C1_Witness ==
    /\ pc = "harness"
    /\ pat = 5
    /\ calls >= 2
    /\ indices # SequentialIndices
    /\ Len(log) = 2

(* C2.  For any ten samples, in any order and with duplicates, the value    *)
(* benchmark_pattern returns and prints is the 6th smallest: at most five  *)
(* samples are smaller, at least six are not larger, it is one of the       *)
(* samples (never the mean of the two middle ones), and on the hand-made    *)
(* array [5,1,4,2,8,9,3,7,6,0] it is 5.                                      *)
C2_Median ==
    (pc # "reduce" /\ samples # NULL) =>
        LET m == results[Len(results)]
            printed == out[Len(out)]
        IN  /\ DOMAIN samples = 0 .. 9
            /\ \E i \in DOMAIN samples : samples[i] = m
            /\ Cardinality({i \in DOMAIN samples : samples[i] < m}) <= 5
            /\ Cardinality({i \in DOMAIN samples : samples[i] <= m}) >= 6
            /\ samples = HandSamples => m = 5
            /\ printed.kind = "result"
            /\ 10000 * printed.value - 5000 <= m
            /\ m < 10000 * printed.value + 5000

\* The hand-made array has been reduced (its two middle values are 4 and 5).
C2_Witness ==
    /\ pc = "gen"
    /\ samples = HandSamples
    /\ results = << 5 >>
    /\ build.lang = "c"

\* The fixed order of the patterns.
C3_Order == << "Sequential", "Backward", "Interleaved", "Bouncing", "Random" >>

\* out starts with the three header lines and the result lines of the first
\* n patterns, each carrying that pattern's median.
C3_HeaderAndResults(n) ==
    /\ Len(out) >= 3 + n
    /\ out[1].kind = "title" /\ out[2].kind = "array_size" /\ out[3].kind = "iterations"
    /\ Len(results) = n
    /\ \A k \in 1 .. n :
          /\ out[3 + k].kind = "result"
          /\ out[3 + k].name = C3_Order[k]
          /\ 10000 * out[3 + k].value - 5000 <= results[k]
          /\ results[k] < 10000 * out[3 + k].value + 5000

(* C3.  The output of a successful run: nothing before the header; the      *)
(* header lines; one result line per pattern, in the order Sequential,      *)
(* Backward, Interleaved, Bouncing, Random, each written when its pattern   *)
(* completes and before the next starts; then the marker CSV_OUTPUT:, the   *)
(* row Pattern,Time_ms and five rows in the same order, each with the value *)
(* of that pattern's result line; the exit status is 0.                     *)
C3_OutputOrder ==
    /\ pc \in {"start", "check", "construct_indices", "fill", "header"} => out = <<>>
    /\ pc \in {"seed", "gen"} => C3_HeaderAndResults(pat) /\ Len(out) = 3 + pat
    /\ pc \in InPasses => C3_HeaderAndResults(pat - 1) /\ Len(out) = 3 + pat - 1
    /\ pc = "csv" => C3_HeaderAndResults(5) /\ Len(out) = 8
    /\ pc = "return" \/ (pc = "exit" /\ pat >= 1) =>
          /\ C3_HeaderAndResults(5)
          /\ Len(out) = 15
          /\ out[9].kind = "marker" /\ out[9].name = "CSV_OUTPUT:"
          /\ out[10].name = "Pattern,Time_ms"
          /\ \A k \in 1 .. 5 :
                /\ out[10 + k].kind = "csv"
                /\ out[10 + k].name = C3_Order[k]
                /\ out[10 + k].value = out[3 + k].value
    /\ (pc = "exit" /\ pat >= 1) => exit_status = 0
    /\ exit_status = 0 => pc = "exit" /\ pat = 5

\* A run has ended with status 0 and with two different medians printed.
C3_Witness ==
    /\ exit_status = 0
    /\ Len(out) = 15
    /\ out[4].value # out[5].value

\* The Random sequences obtained from any prior content of the storage with
\* the engine freshly seeded.
C4_FreshShuffles ==
    {generate_random_indices(prior, Srand(SHUFFLE_SEED)).indices :
        prior \in [0 .. Count - 1 -> JunkIndex]}

(* C4.  Random is deterministic: the sequence the program benchmarks as     *)
(* Random is the one any generation with the same seed and length yields,   *)
(* whatever the storage held before and however many values were drawn to   *)
(* fill the DataBuffer.                                                      *)
C4_RandomDeterministic ==
    (pat = 5 /\ pc \in InPasses \cup {"csv", "return"}) =>
        C4_FreshShuffles = {indices}

\* The C program, whose rand() also filled the buffer, has generated Random.
C4_Witness ==
    /\ pat = 5
    /\ pc = "reduce"
    /\ build.lang = "c"
    /\ indices # SequentialIndices

(* C5.  The timer never goes back: the timestamp read after a timed pass is *)
(* at least the one read before it, even if the host's calendar clock is    *)
(* stepped backwards during the run, so that no sample and no median is     *)
(* negative.                                                                 *)
C5_TimerMonotonic ==
    /\ pc = "t_end" => get_time(build, mono, wall_adj) >= start
    /\ pc \in InPasses => \A i \in 0 .. it - 1 : times[i] >= 0
    /\ \A k \in 1 .. Len(results) : results[k] >= 0

(* C6.  Every pass of every pattern reads exactly L = N/8 records, one per  *)
(* entry of the IndexSequence, at the offsets {0, 8, ..., N-8} in some      *)
(* order; a completed pattern has made exactly 13 * L reads.                 *)
C6_ReadCounts ==
    LET passes == {k \in 1 .. Len(log) : log[k].ev = "pass"}
    IN  /\ \A k \in passes :
              /\ Len(log[k].offs) = ARRAY_SIZE \div 8
              /\ {log[k].offs[n] : n \in 1 .. Len(log[k].offs)} = StridedOffsets
        /\ reads = Cardinality(passes) * (ARRAY_SIZE \div 8)
        /\ (pat >= 1 /\ pc \in {"gen", "csv", "return", "exit"}) =>
              reads = 13 * (ARRAY_SIZE \div 8)
        /\ (pat >= 1 /\ pc \in {"t_start", "t_pass", "t_end", "reduce"}) =>
              reads = (3 + it + (IF pc = "t_end" THEN 1 ELSE 0)) * (ARRAY_SIZE \div 8)

\* The last pattern, Random, has completed: its order differs, its count does not.
C6_Witness ==
    /\ pat = 5
    /\ pc = "csv"
    /\ reads = 13 * Count
    /\ indices # SequentialIndices

C8_Interleaved ==
    pat = 3 =>
        LET L == ARRAY_SIZE \div 8
            h == L \div 2
        IN  /\ \A i \in 0 .. h - 1 :
                  /\ indices[2 * i] = i * 8
                  /\ indices[2 * i + 1] = (h + i) * 8
                  /\ indices[2 * i] < h * 8
                  /\ h * 8 <= indices[2 * i + 1]
            /\ \A i, j \in 0 .. h - 1 :
                  i < j => /\ indices[2 * i] < indices[2 * j]
                           /\ indices[2 * i + 1] < indices[2 * j + 1]
            /\ {indices[2 * i] : i \in 0 .. h - 1} = {8 * k : k \in 0 .. h - 1}
            /\ {indices[2 * i + 1] : i \in 0 .. h - 1} = {8 * k : k \in h .. L - 1}

\* Interleaved has run over the output of another generator.
C8_Witness ==
    /\ pc = "harness"
    /\ pat = 3
    /\ calls >= 2
    /\ Len(log) = 2

(* C9.  After the Bouncing generator: offset[0] = 0, offset[1] = (L-1)*8;   *)
(* the even positions are strictly increasing, the odd positions strictly   *)
(* decreasing; every even-position offset is below every odd-position       *)
(* offset; the walks meet at the last pair, offset[L-2] = (L/2 - 1)*8 and   *)
(* offset[L-1] = (L/2)*8.                                                    *)
C9_Bouncing ==
    pat = 4 =>
        LET L == ARRAY_SIZE \div 8
            evens == {i \in 0 .. L - 1 : i % 2 = 0}
            odds == {i \in 0 .. L - 1 : i % 2 = 1}
        IN  /\ indices[0] = 0
            /\ indices[1] = (L - 1) * 8
            /\ \A i, j \in evens : i < j => indices[i] < indices[j]
            /\ \A i, j \in odds : i < j => indices[i] > indices[j]
            /\ \A i \in evens, j \in odds : indices[i] < indices[j]
            /\ indices[L - 2] = (L \div 2 - 1) * 8
            /\ indices[L - 1] = (L \div 2) * 8

\* Bouncing has run over the output of another generator.
C9_Witness ==
    /\ pc = "harness"
    /\ pat = 4
    /\ calls >= 2
    /\ Len(log) = 2

\* The events of one complete call: the generator, 3 passes, 10 times
\* (timer, pass, timer, sample), the median; every pass reading offs.
C10_Expected(offs) ==
    [k \in 1 .. 1 + 3 + 10 * 4 + 1 |->
        IF k = 1 THEN Event("generate", <<>>)
        ELSE IF k <= 4 THEN Event("pass", offs)
        ELSE IF k = 45 THEN Event("median", <<>>)
        ELSE CASE (k - 5) % 4 = 0 -> Event("timer", <<>>)
               [] (k - 5) % 4 = 1 -> Event("pass", offs)
               [] (k - 5) % 4 = 2 -> Event("timer", <<>>)
               [] (k - 5) % 4 = 3 -> Event("sample", <<>>)]

\* Where the call stands, its events so far are the start of the one order.
C10_OrderSoFar ==
    /\ pc \in InPasses =>
          /\ IsPrefix(log, C10_Expected(IndexSeq(indices)))
          /\ Len(log) < 45
          /\ pc = "reduce" => Len(log) = 44
    /\ (pat >= 1 /\ pc \in {"gen", "csv"}) =>
          log = C10_Expected(IndexSeq(indices))

\* A step taken inside the call, after the generator, writes neither buffer.
C10_BuffersKept == pc \in InPasses => (indices' = indices /\ arr' = arr)

(* C10.  Within one call of benchmark_pattern: the generator once, before   *)
(* any read; exactly 3 warmup passes with no timer read and no sample;      *)
(* exactly 10 timed passes, each between two timer reads and storing one    *)
(* sample; only then the median.  From the generator's return to the end of *)
(* the call neither buffer is written, all 13 passes reading the same       *)
(* offsets in the same order.                                                *)
C10_CallOrder ==
    /\ []C10_OrderSoFar
    /\ [][C10_BuffersKept]_vars

\* A call has completed for the Random pattern.
C10_Witness ==
    /\ pat = 5
    /\ pc = "csv"
    /\ Len(log) = 45
    /\ indices # SequentialIndices

====
